---- MODULE Spec2Model ----
(***************************************************************************)
(* Model of the Z80 disassembler's format interpreter (z80.cpp):           *)
(* the name tables, the bounded output buffer output_buff and              *)
(* disassembler_base::on_format_impl.                                      *)
(*                                                                         *)
(* C strings are sequences of one-character strings.  assert() is          *)
(* modelled with its standard meaning (NDEBUG not defined): a false        *)
(* condition aborts the process.                                           *)
(***************************************************************************)
EXTENDS Integers, Sequences, FiniteSets, TLC

VARIABLES
    pc,         \* position inside on_format_impl: idle/scan/append/term/sink/aborted
    fmt,        \* the format string of the current call (without its '\0')
    args,       \* the argument stream of the current call
    p,          \* scan position in fmt (1-based)
    ai,         \* position of the args pointer (1-based)
    buff,       \* output_buff::buff
    size,       \* output_buff::size
    pend,       \* rest of the string append(const char *) is walking
    delivered,  \* the line on_output is reading during its invocation
    calls,      \* number of invocations of on_format_impl
    sinks       \* number of invocations of on_output

vars == <<pc, fmt, args, p, ai, buff, size, pend, delivered, calls, sinks>>

----------------------------------------------------------------------------
(* Bounds of the model.                                                    *)

MaxCalls == 2       \* formatting calls per behaviour
MaxFmtLen == 2      \* length of the exhaustively enumerated format strings
MaxRepeat == 33     \* length of the repeated-character format strings
MaxDisp == 1100     \* relative addresses -MaxDisp..MaxDisp are enumerated

----------------------------------------------------------------------------
(* Characters.                                                             *)

NUL == "NUL"            \* the terminator '\0'
Uninit == "UNINIT"      \* a buffer slot never written
Overrun == "OVERRUN"    \* a read past the end of the buffer

max_size == 32          \* output_buff::max_size
pad_size == 32          \* sizeof(pad) in append_u8, append_u16, append_disp

Min(S) == CHOOSE x \in S : \A y \in S : x <= y

----------------------------------------------------------------------------
(* Enumerations (z80.h) and the name tables.                               *)

Reg == {"b", "c", "d", "e", "h", "l", "at_hl", "a"}
IndexRegp == {"hl", "ix", "iy"}
Regp == {"bc", "de", "hl", "sp"}
Alu == {"add", "adc", "sub", "sbc", "and_a", "xor_a", "or_a", "cp"}
BlockLd == {"ldi", "ldd", "ldir", "lddr"}
Condition == {"nz", "z", "nc", "c", "po", "pe", "p", "m"}

get_reg_name(r) ==
    CASE r = "b" -> <<"b">>
      [] r = "c" -> <<"c">>
      [] r = "d" -> <<"d">>
      [] r = "e" -> <<"e">>
      [] r = "h" -> <<"h">>
      [] r = "l" -> <<"l">>
      [] r = "at_hl" -> <<"(", "h", "l", ")">>
      [] r = "a" -> <<"a">>

get_reg_name_irp(irp) ==
    CASE irp = "hl" -> <<"h", "l">>
      [] irp = "ix" -> <<"i", "x">>
      [] irp = "iy" -> <<"i", "y">>

\* Variant: the pair hl ignores the index-register context.
get_reg_name_rp_no_overlay(rp, irp) ==
    CASE rp = "bc" -> <<"b", "c">>
      [] rp = "de" -> <<"d", "e">>
      [] rp = "hl" -> <<"h", "l">>
      [] rp = "sp" -> <<"s", "p">>

get_reg_name_rp(rp, irp) ==
    CASE rp = "bc" -> <<"b", "c">>
      [] rp = "de" -> <<"d", "e">>
      [] rp = "hl" -> get_reg_name_irp(irp)
      [] rp = "sp" -> <<"s", "p">>

get_mnemonic(k) ==
    CASE k = "add" -> <<"a", "d", "d">>
      [] k = "adc" -> <<"a", "d", "c">>
      [] k = "sub" -> <<"s", "u", "b">>
      [] k = "sbc" -> <<"s", "b", "c">>
      [] k = "and_a" -> <<"a", "n", "d">>
      [] k = "xor_a" -> <<"x", "o", "r">>
      [] k = "or_a" -> <<"o", "r">>
      [] k = "cp" -> <<"c", "p">>

get_mnemonic_block(k) ==
    CASE k = "ldi" -> <<"l", "d", "i">>
      [] k = "ldd" -> <<"l", "d", "d">>
      [] k = "ldir" -> <<"l", "d", "i", "r">>
      [] k = "lddr" -> <<"l", "d", "d", "r">>

\* Variant: sub is taken for a two-operand instruction as well.
is_two_operand_alu_instr_with_sub(k) ==
    k = "add" \/ k = "adc" \/ k = "sub" \/ k = "sbc"

is_two_operand_alu_instr(k) == k = "add" \/ k = "adc" \/ k = "sbc"

get_index_reg_name(irp) ==
    CASE irp = "hl" -> <<"h", "l">>
      [] irp = "ix" -> <<"i", "x">>
      [] irp = "iy" -> <<"i", "y">>

get_condition_name(cc) ==
    CASE cc = "nz" -> <<"n", "z">>
      [] cc = "z" -> <<"z">>
      [] cc = "nc" -> <<"n", "c">>
      [] cc = "c" -> <<"c">>
      [] cc = "po" -> <<"p", "o">>
      [] cc = "pe" -> <<"p", "e">>
      [] cc = "p" -> <<"p">>
      [] cc = "m" -> <<"m">>

----------------------------------------------------------------------------
(* std::snprintf conversions used by output_buff.                          *)

HexChars == <<"0", "1", "2", "3", "4", "5", "6", "7",
              "8", "9", "a", "b", "c", "d", "e", "f">>
DecChars == <<"0", "1", "2", "3", "4", "5", "6", "7", "8", "9">>

\* The digits of n >= 0 in the given base, most significant first,
\* without padding (what %x and %d produce before the field width applies).
RECURSIVE Digits(_, _, _)
Digits(n, base, chars) ==
    IF n < base THEN <<chars[n + 1]>>
    ELSE Append(Digits(n \div base, base, chars), chars[(n % base) + 1])

\* The '0' flag with a field width: pad on the left with zeros up to width.
RECURSIVE ZeroPad(_, _)
ZeroPad(s, width) ==
    IF Len(s) >= width THEN s ELSE ZeroPad(<<"0">> \o s, width)

\* snprintf writes at most bufsz - 1 characters before the terminator.
Truncate(s, bufsz) ==
    IF Len(s) <= bufsz - 1 THEN s ELSE SubSeq(s, 1, bufsz - 1)

\* Variant: "0x%x", no zero padding.
format_u8_no_pad(n) ==
    Truncate(<<"0", "x">> \o Digits(n, 16, HexChars), pad_size)

\* snprintf(pad, sizeof(pad), "0x%02x", static_cast<unsigned>(n))
format_u8(n) ==
    Truncate(<<"0", "x">> \o ZeroPad(Digits(n, 16, HexChars), 2), pad_size)

\* snprintf(pad, sizeof(pad), "0x%04x", static_cast<unsigned>(n))
format_u16(n) ==
    Truncate(<<"0", "x">> \o ZeroPad(Digits(n, 16, HexChars), 4), pad_size)

\* Variant: "%d", no sign for non-negative values.
format_disp_no_plus(d) ==
    Truncate((IF d < 0 THEN <<"-">> ELSE <<>>)
                 \o Digits(IF d < 0 THEN 0 - d ELSE d, 10, DecChars),
             pad_size)

\* snprintf(pad, sizeof(pad), "%+d", static_cast<int>(d))
format_disp(d) ==
    Truncate((IF d < 0 THEN <<"-">> ELSE <<"+">>)
                 \o Digits(IF d < 0 THEN 0 - d ELSE d, 10, DecChars),
             pad_size)

\* sign_extend8 (z80.h): the byte read as a two's-complement value.
sign_extend8(d) == IF d >= 128 THEN d - 256 ELSE d

\* Variant: the assertion is off by one.
append_assert_le(sz) == sz <= max_size

\* The assertion of output_buff::append(char).
append_assert(sz) == sz < max_size

\* get_buff() as the sink reads it: the characters before the first '\0'.
CStr(b) ==
    LET nuls == {i \in DOMAIN b : b[i] = NUL}
    IN  IF nuls = {} THEN <<Overrun>>
        ELSE [i \in 1..Min(nuls) |-> b[i - 1]]

----------------------------------------------------------------------------
(* The text each case of the switch in on_format_impl appends.  a is the   *)
(* argument stream, i the position of the args pointer when the case is    *)
(* entered.                                                                *)

Directives == {"A", "R", "P", "N", "W", "C", "D", "L"}

render_A(a, i) ==
    get_mnemonic(a[i])
        \o (IF is_two_operand_alu_instr(a[i]) THEN <<" ", "a", ",">> ELSE <<>>)

\* Variant: the unindexed context is not told apart.
render_R_always_indexed(a, i) ==
    LET r == a[i]
        irp == a[i + 1]
        d == a[i + 2]
    IN  IF r /= "at_hl"
        THEN get_reg_name(r)
        ELSE <<"(">> \o get_index_reg_name(irp)
                 \o format_disp(sign_extend8(d)) \o <<")">>

render_R(a, i) ==
    LET r == a[i]
        irp == a[i + 1]
        d == a[i + 2]
    IN  IF r /= "at_hl" \/ irp = "hl"
        THEN get_reg_name(r)
        ELSE <<"(">> \o get_index_reg_name(irp)
                 \o format_disp(sign_extend8(d)) \o <<")">>

render_P(a, i) == get_reg_name_rp(a[i], a[i + 1])

render_N(a, i) == format_u8(a[i])

render_W(a, i) == format_u16(a[i])

render_C(a, i) == get_condition_name(a[i])

render_D(a, i) == <<"$">> \o format_disp(a[i])

render_L(a, i) == get_mnemonic_block(a[i])

----------------------------------------------------------------------------
(* Inputs: format strings with argument streams that match them.           *)

\* The argument tuples of one format character over the value sets V.
ArgTuples(V, c) ==
    CASE c = "A" -> {<<k>> : k \in V.alu}
      [] c = "R" -> {<<r, irp, d>> : r \in V.reg, irp \in V.irp, d \in V.d}
      [] c = "P" -> {<<rp, irp>> : rp \in V.rp, irp \in V.irp}
      [] c = "N" -> {<<n>> : n \in V.n}
      [] c = "W" -> {<<nn>> : nn \in V.nn}
      [] c = "C" -> {<<cc>> : cc \in V.cc}
      [] c = "D" -> {<<d>> : d \in V.disp}
      [] c = "L" -> {<<k>> : k \in V.block}
      [] OTHER -> {<<>>}

Literals == {"x", ","}
Alphabet == Directives \cup Literals

\* The argument streams that match the format string f.
RECURSIVE ArgStreams(_, _)
ArgStreams(V, f) ==
    IF f = <<>> THEN {<<>>}
    ELSE {a \o rest : a \in ArgTuples(V, Head(f)),
                      rest \in ArgStreams(V, Tail(f))}

InputsFor(V, F) ==
    UNION {{[fmt |-> f, args |-> a] : a \in ArgStreams(V, f)} : f \in F}

\* Every format string of length n over the alphabet.
RECURSIVE FormatsOfLen(_)
FormatsOfLen(n) ==
    IF n = 0 THEN {<<>>}
    ELSE {Append(f, c) : f \in FormatsOfLen(n - 1), c \in Alphabet}

RECURSIVE RepeatSeq(_, _)
RepeatSeq(s, k) == IF k = 0 THEN <<>> ELSE s \o RepeatSeq(s, k - 1)

\* One character and its arguments repeated up to max times.
RepeatInputs(V, max) ==
    UNION {{[fmt |-> RepeatSeq(<<c>>, k), args |-> RepeatSeq(a, k)] :
                a \in ArgTuples(V, c)} :
             c \in Alphabet, k \in 1..max}

\* Format strings of the shape the decoder passes:
\* "ld R, R", "A R", "jp C, W", "jr D", "ld P, W".
SampleFormats ==
    {<<"l", "d", " ", "R", ",", " ", "R">>,
     <<"A", " ", "R">>,
     <<"j", "p", " ", "C", ",", " ", "W">>,
     <<"j", "r", " ", "D">>,
     <<"l", "d", " ", "P", ",", " ", "W">>}

SmallValues ==
    [alu |-> Alu, reg |-> {"b", "at_hl"}, irp |-> {"hl", "ix"},
     d |-> {5, 253}, rp |-> {"hl", "bc"}, n |-> {10}, nn |-> {4660},
     cc |-> {"nz"}, disp |-> {-5, 5}, block |-> {"ldir"}]

AllValues ==
    [alu |-> Alu, reg |-> Reg, irp |-> IndexRegp, d |-> 0..255,
     rp |-> Regp, n |-> 0..255, nn |-> 0..65535, cc |-> Condition,
     disp |-> (-MaxDisp..MaxDisp) \cup {-2147483647, 2147483647},
     block |-> BlockLd]

Inputs ==
    InputsFor(SmallValues,
              UNION {FormatsOfLen(n) : n \in 0..MaxFmtLen} \cup SampleFormats)
        \cup RepeatInputs(SmallValues, MaxRepeat)

----------------------------------------------------------------------------
(* The state machine.                                                      *)

NoBuff == [i \in 0..(max_size - 1) |-> Uninit]

Init ==
    /\ pc = "idle"
    /\ fmt = <<>>
    /\ args = <<>>
    /\ p = 1
    /\ ai = 1
    /\ buff = NoBuff
    /\ size = 0
    /\ pend = <<>>
    /\ delivered = <<>>
    /\ calls = 0
    /\ sinks = 0

\* on_format_impl(f, a) is entered: output_buff out; p = fmt.
Enter(f, a) ==
    /\ fmt' = f
    /\ args' = a
    /\ p' = 1
    /\ ai' = 1
    /\ buff' = NoBuff
    /\ size' = 0
    /\ pend' = <<>>
    /\ pc' = "scan"
    /\ calls' = calls + 1
    /\ UNCHANGED <<delivered, sinks>>

\* A call with a short or a repeated-character format string.
Call ==
    /\ pc = "idle"
    /\ calls < MaxCalls
    /\ \E inp \in Inputs : Enter(inp.fmt, inp.args)

\* A call with a single format character over the whole range of its
\* arguments, or with a repeated-character format string.
CallOperand ==
    /\ pc = "idle"
    /\ calls < MaxCalls
    /\ \/ \E c \in Alphabet :
             \E a \in ArgTuples(AllValues, c) : Enter(<<c>>, a)
       \/ \E inp \in RepeatInputs(SmallValues, MaxRepeat) :
             Enter(inp.fmt, inp.args)

\* One case of the switch: n calls of get_arg, then the string(s) to append.
Case(c, n, text) ==
    /\ pc = "scan"
    /\ p <= Len(fmt)
    /\ fmt[p] = c
    /\ ai' = ai + n
    /\ pend' = text
    /\ pc' = "append"
    /\ UNCHANGED <<fmt, args, p, buff, size, delivered, calls, sinks>>

\* Variant: the context and the displacement are fetched only when used.
CaseR_lazy_args ==
    Case("R",
         IF args[ai] /= "at_hl" \/ args[ai + 1] = "hl" THEN 1 ELSE 3,
         render_R(args, ai))

CaseA == Case("A", 1, render_A(args, ai))
CaseR == Case("R", 3, render_R(args, ai))
CaseP == Case("P", 2, render_P(args, ai))
CaseN == Case("N", 1, render_N(args, ai))
CaseW == Case("W", 1, render_W(args, ai))
CaseC == Case("C", 1, render_C(args, ai))
CaseD == Case("D", 1, render_D(args, ai))
CaseL == Case("L", 1, render_L(args, ai))

\* Variant: the default case appends nothing.
CaseDefault_skip ==
    /\ pc = "scan"
    /\ p <= Len(fmt)
    /\ fmt[p] \notin Directives
    /\ pend' = <<>>
    /\ pc' = "append"
    /\ UNCHANGED <<fmt, args, p, ai, buff, size, delivered, calls, sinks>>

\* default: out.append(*p)
CaseDefault ==
    /\ pc = "scan"
    /\ p <= Len(fmt)
    /\ fmt[p] \notin Directives
    /\ pend' = <<fmt[p]>>
    /\ pc' = "append"
    /\ UNCHANGED <<fmt, args, p, ai, buff, size, delivered, calls, sinks>>

\* output_buff::append(char) with the assertion holding.
AppendChar ==
    /\ pc \in {"append", "term"}
    /\ pend /= <<>>
    /\ append_assert(size)
    /\ buff' = [buff EXCEPT ![size] = Head(pend)]
    /\ size' = size + 1
    /\ pend' = Tail(pend)
    /\ UNCHANGED <<pc, fmt, args, p, ai, delivered, calls, sinks>>

\* output_buff::append(char) with the assertion failing: the process aborts.
AppendAbort ==
    /\ pc \in {"append", "term"}
    /\ pend /= <<>>
    /\ ~append_assert(size)
    /\ pc' = "aborted"
    /\ UNCHANGED <<fmt, args, p, ai, buff, size, pend, delivered, calls, sinks>>

\* break; ++p
Break ==
    /\ pc = "append"
    /\ pend = <<>>
    /\ p' = p + 1
    /\ pc' = "scan"
    /\ UNCHANGED <<fmt, args, ai, buff, size, pend, delivered, calls, sinks>>

\* Variant: the terminator is stored without the bounded append.
Terminate_unchecked ==
    /\ pc = "scan"
    /\ p > Len(fmt)
    /\ buff' = [i \in DOMAIN buff |-> IF i = size THEN NUL ELSE buff[i]]
    /\ size' = size + 1
    /\ pend' = <<>>
    /\ pc' = "term"
    /\ UNCHANGED <<fmt, args, p, ai, delivered, calls, sinks>>

\* *p = '\0' ends the loop; out.append('\0') follows.
Terminate ==
    /\ pc = "scan"
    /\ p > Len(fmt)
    /\ pend' = <<NUL>>
    /\ pc' = "term"
    /\ UNCHANGED <<fmt, args, p, ai, buff, size, delivered, calls, sinks>>

\* Variant: the sink is called without the terminator being appended.
Output_unterminated ==
    /\ pc = "scan"
    /\ p > Len(fmt)
    /\ delivered' = CStr(buff)
    /\ sinks' = sinks + 1
    /\ pc' = "sink"
    /\ UNCHANGED <<fmt, args, p, ai, buff, size, pend, calls>>

\* on_output(out.get_buff())
Output ==
    /\ pc = "term"
    /\ pend = <<>>
    /\ delivered' = CStr(buff)
    /\ sinks' = sinks + 1
    /\ pc' = "sink"
    /\ UNCHANGED <<fmt, args, p, ai, buff, size, pend, calls>>

\* on_output returns and on_format_impl with it; the locals are discarded.
Return ==
    /\ pc = "sink"
    /\ pc' = "idle"
    /\ fmt' = <<>>
    /\ args' = <<>>
    /\ p' = 1
    /\ ai' = 1
    /\ buff' = NoBuff
    /\ size' = 0
    /\ pend' = <<>>
    /\ delivered' = <<>>
    /\ UNCHANGED <<calls, sinks>>

Next ==
    \/ Call
    \/ CaseA \/ CaseR \/ CaseP \/ CaseN \/ CaseW \/ CaseC \/ CaseD \/ CaseL
    \/ CaseDefault
    \/ AppendChar
    \/ AppendAbort
    \/ Break
    \/ Terminate
    \/ Output
    \/ Return

Spec == Init /\ [][Next]_vars

\* The same program called with one directive over its whole value range.
NextOperand ==
    \/ CallOperand
    \/ CaseA \/ CaseR \/ CaseP \/ CaseN \/ CaseW \/ CaseC \/ CaseD \/ CaseL
    \/ CaseDefault
    \/ AppendChar
    \/ AppendAbort
    \/ Break
    \/ Terminate
    \/ Output
    \/ Return

SpecOperand == Init /\ [][NextOperand]_vars

----------------------------------------------------------------------------
(* Vocabulary of the properties.                                           *)

\* The characters written to the buffer so far.
Written == [i \in 1..size |-> buff[i - 1]]

\* The number of arguments the specification gives each format character.
Arity(c) ==
    CASE c = "R" -> 3
      [] c = "P" -> 2
      [] c \in {"A", "N", "W", "C", "D", "L"} -> 1
      [] OTHER -> 0

\* The sum of the arities of the first k characters of f.
RECURSIVE SumArity(_, _)
SumArity(f, k) == IF k = 0 THEN 0 ELSE SumArity(f, k - 1) + Arity(f[k])

\* The rendering of one format character whose arguments start at a[i];
\* a literal renders as itself.
Segment(c, a, i) ==
    CASE c = "A" -> render_A(a, i)
      [] c = "R" -> render_R(a, i)
      [] c = "P" -> render_P(a, i)
      [] c = "N" -> render_N(a, i)
      [] c = "W" -> render_W(a, i)
      [] c = "C" -> render_C(a, i)
      [] c = "D" -> render_D(a, i)
      [] c = "L" -> render_L(a, i)
      [] OTHER -> <<c>>

\* The renderings of the first k characters of f, in order.
RECURSIVE RenderedUpTo(_, _, _)
RenderedUpTo(f, a, k) ==
    IF k = 0 THEN <<>>
    ELSE RenderedUpTo(f, a, k - 1) \o Segment(f[k], a, 1 + SumArity(f, k - 1))

Rendered(f, a) == RenderedUpTo(f, a, Len(f))

LowerHex == <<"0", "1", "2", "3", "4", "5", "6", "7",
              "8", "9", "a", "b", "c", "d", "e", "f">>

DecimalDigit == {"0", "1", "2", "3", "4", "5", "6", "7", "8", "9"}

DigitValue(ch) ==
    CASE ch = "0" -> 0 [] ch = "1" -> 1 [] ch = "2" -> 2 [] ch = "3" -> 3
      [] ch = "4" -> 4 [] ch = "5" -> 5 [] ch = "6" -> 6 [] ch = "7" -> 7
      [] ch = "8" -> 8 [] ch = "9" -> 9

\* The number a sequence of decimal digits denotes.
RECURSIVE ParseDec(_)
ParseDec(s) ==
    IF s = <<>> THEN 0
    ELSE 10 * ParseDec(SubSeq(s, 1, Len(s) - 1)) + DigitValue(s[Len(s)])

\* s is the decimal numeral of v with an explicit sign and no padding.
IsSignedDecimal(s, v) ==
    /\ Len(s) >= 2
    /\ s[1] = (IF v < 0 THEN "-" ELSE "+")
    /\ \A i \in 2..Len(s) : s[i] \in DecimalDigit
    /\ Len(s) > 2 => s[2] /= "0"
    /\ ParseDec(Tail(s)) = (IF v < 0 THEN 0 - v ELSE v)

\* on_output is being invoked for a call with the one-character format c.
SinkOf(c) == pc = "sink" /\ fmt = <<c>>

----------------------------------------------------------------------------
C2_CapacityInvariant ==
    [][/\ size <= max_size /\ size' <= max_size
       /\ DOMAIN buff' = 0..(max_size - 1)
       /\ (pc \in {"append", "term"} /\ pend /= <<>> /\ size < max_size) =>
            /\ size' = size + 1
            /\ buff'[size] = Head(pend)
            /\ pend' = Tail(pend)
            /\ \A i \in 0..(size - 1) : buff'[i] = buff[i]
       /\ (pc \in {"append", "term"} /\ pend /= <<>> /\ size = max_size) =>
            /\ pc' = "aborted"
            /\ buff' = buff /\ size' = size /\ pend' = pend
       /\ (size' /= size /\ pc' /= "idle" /\ pc /= "idle") =>
            /\ pend /= <<>>
            /\ size' = size + 1
      ]_vars

C2_Witness == pc = "aborted" /\ size = max_size /\ pend /= <<>>

(* C3: 'R' emits the register's fixed name for every register but the    *)
(* memory-indirect placeholder, whatever the context and displacement;     *)
(* "(hl)" for the placeholder in the unindexed context; and "(" + "ix" or  *)
(* "iy" + the displacement byte as a signed 8-bit decimal with an explicit *)
(* sign + ")" for the placeholder in the ix or iy context.                 *)
C3_RegisterOperand ==
    SinkOf("R") =>
        LET r == args[1]
            irp == args[2]
            d == args[3]
            n == Len(delivered)
        IN  /\ r /= "at_hl" => delivered = <<r>>
            /\ (r = "at_hl" /\ irp = "hl") => delivered = <<"(", "h", "l", ")">>
            /\ (r = "at_hl" /\ irp /= "hl") =>
                /\ n >= 6
                /\ SubSeq(delivered, 1, 3) =
                     <<"(", "i", IF irp = "ix" THEN "x" ELSE "y">>
                /\ delivered[n] = ")"
                /\ IsSignedDecimal(SubSeq(delivered, 4, n - 1),
                                   IF d >= 128 THEN d - 256 ELSE d)
            /\ args = <<"at_hl", "ix", 253>> =>
                delivered = <<"(", "i", "x", "-", "3", ")">>
            /\ args = <<"at_hl", "iy", 5>> =>
                delivered = <<"(", "i", "y", "+", "5", ")">>

C3_Witness ==
    /\ SinkOf("R")
    /\ args = <<"at_hl", "ix", 253>>
    /\ delivered = <<"(", "i", "x", "-", "3", ")">>

(* C4: 'P' renders the pair hl as "hl", "ix" or "iy" according to the      *)
(* context, and the pairs bc, de, sp as "bc", "de", "sp" in every context. *)
C4_RegisterPair ==
    SinkOf("P") =>
        LET rp == args[1]
            irp == args[2]
        IN  /\ (rp = "hl" /\ irp = "hl") => delivered = <<"h", "l">>
            /\ (rp = "hl" /\ irp = "ix") => delivered = <<"i", "x">>
            /\ (rp = "hl" /\ irp = "iy") => delivered = <<"i", "y">>
            /\ rp = "bc" => delivered = <<"b", "c">>
            /\ rp = "de" => delivered = <<"d", "e">>
            /\ rp = "sp" => delivered = <<"s", "p">>

C4_Witness ==
    SinkOf("P") /\ args = <<"hl", "ix">> /\ delivered = <<"i", "x">>

(* C5: 'A' emits the mnemonic, followed by " a," exactly for add, adc and  *)
(* sbc; sub, and, xor, or, cp emit the bare mnemonic; the text after the   *)
(* directive follows immediately.                                          *)
C5_AluMnemonic ==
    LET AluText(k) ==
            CASE k = "add" -> <<"a", "d", "d", " ", "a", ",">>
              [] k = "adc" -> <<"a", "d", "c", " ", "a", ",">>
              [] k = "sbc" -> <<"s", "b", "c", " ", "a", ",">>
              [] k = "sub" -> <<"s", "u", "b">>
              [] k = "and_a" -> <<"a", "n", "d">>
              [] k = "xor_a" -> <<"x", "o", "r">>
              [] k = "or_a" -> <<"o", "r">>
              [] k = "cp" -> <<"c", "p">>
    IN  /\ SinkOf("A") => delivered = AluText(args[1])
        /\ (pc = "sink" /\ Len(fmt) = 2 /\ fmt[1] = "A"
                /\ fmt[2] \in Literals) =>
            delivered = AluText(args[1]) \o <<fmt[2]>>
        /\ (pc = "sink" /\ fmt = <<"A", " ", "R">>) =>
            delivered = AluText(args[1]) \o <<" ">> \o render_R(args, 2)

C5_Witness ==
    /\ pc = "sink"
    /\ fmt = <<"A", " ", "R">>
    /\ args = <<"sbc", "b", "hl", 5>>
    /\ delivered = <<"s", "b", "c", " ", "a", ",", " ", "b">>

(* C6: every character of the format string that is not one of            *)
(* A R P N W C D L is copied unchanged to the output, at its place among   *)
(* the renderings of the directives, and consumes no argument.             *)
C6_LiteralPreservation ==
    /\ pc = "scan" => Written = RenderedUpTo(fmt, args, p - 1)
    /\ (pc = "append" /\ fmt[p] \notin {"A", "R", "P", "N", "W", "C", "D", "L"})
         => /\ Written \o pend = RenderedUpTo(fmt, args, p - 1) \o <<fmt[p]>>
            /\ ai = 1 + SumArity(fmt, p - 1)
    /\ pc = "sink" => delivered = Rendered(fmt, args)

C6_Witness ==
    /\ pc = "sink"
    /\ fmt = <<"l", "d", " ", "R", ",", " ", "R">>
    /\ args = <<"b", "hl", 5, "at_hl", "ix", 253>>
    /\ delivered = <<"l", "d", " ", "b", ",", " ", "(", "i", "x", "-", "3", ")">>

(* C7: 'N' renders n in 0..255 as "0x" and exactly two lower-case         *)
(* zero-padded hex digits, 'W' renders nn in 0..65535 as "0x" and exactly  *)
(* four; 10 gives "0x0a" and 4660 gives "0x1234".                          *)
C7_HexImmediates ==
    /\ SinkOf("N") =>
        LET n == args[1]
        IN  /\ delivered = <<"0", "x", LowerHex[(n \div 16) + 1],
                                        LowerHex[(n % 16) + 1]>>
            /\ n = 10 => delivered = <<"0", "x", "0", "a">>
    /\ SinkOf("W") =>
        LET nn == args[1]
        IN  /\ delivered = <<"0", "x", LowerHex[(nn \div 4096) + 1],
                                        LowerHex[((nn \div 256) % 16) + 1],
                                        LowerHex[((nn \div 16) % 16) + 1],
                                        LowerHex[(nn % 16) + 1]>>
            /\ nn = 4660 => delivered = <<"0", "x", "1", "2", "3", "4">>

C7_Witness ==
    SinkOf("W") /\ args = <<4660>>
        /\ delivered = <<"0", "x", "1", "2", "3", "4">>

(* C8: 'D' emits "$" and its argument in decimal with an explicit sign    *)
(* and no padding: "$-" + |v| for negative v, "$+" + v otherwise.          *)
C8_RelativeAddress ==
    SinkOf("D") =>
        LET v == args[1]
        IN  /\ Len(delivered) >= 3
            /\ delivered[1] = "$"
            /\ IsSignedDecimal(Tail(delivered), v)
            /\ v = -5 => delivered = <<"$", "-", "5">>
            /\ v = 5 => delivered = <<"$", "+", "5">>
            /\ v = 0 => delivered = <<"$", "+", "0">>

C8_Witness == SinkOf("D") /\ args = <<-5>> /\ delivered = <<"$", "-", "5">>

(* C9: each directive advances the argument pointer by its arity (R 3,     *)
(* P 2, the others 1), a literal by 0; the k-th character reads its        *)
(* arguments from the sum of the arities before it, and after the scan the *)
(* pointer stands at the sum of all arities.                               *)
C9_ArgumentConsumption ==
    /\ pc = "scan" => ai = 1 + SumArity(fmt, p - 1)
    /\ pc = "append" => ai = 1 + SumArity(fmt, p)
    /\ pc \in {"term", "sink"} =>
        /\ ai = 1 + SumArity(fmt, Len(fmt))
        /\ ai = 1 + Len(args)

C9_Witness ==
    /\ pc = "sink"
    /\ fmt = <<"l", "d", " ", "R", ",", " ", "R">>
    /\ args[1] = "b"
    /\ ai = 7

(* C10: the terminator counts against max_size: a delivered line has at    *)
(* most max_size - 1 characters before its terminator, and a call whose    *)
(* rendered text has max_size or more characters is never terminated and   *)
(* never reaches the sink: it aborts, at the latest on the terminator.     *)
C10_TerminatorBounded ==
    /\ pc = "sink" =>
        /\ Len(delivered) <= max_size - 1
        /\ buff[Len(delivered)] = NUL
        /\ delivered = Rendered(fmt, args)
    /\ (pc /= "idle" /\ Len(Rendered(fmt, args)) >= max_size) =>
        /\ pc /= "sink"
        /\ pc = "term" => (size = max_size /\ pend = <<NUL>>)
    /\ pc = "aborted" =>
        /\ Len(Rendered(fmt, args)) >= max_size
        /\ delivered = <<>>
        /\ sinks = calls - 1

C10_Witness ==
    pc = "aborted" /\ pend = <<NUL>> /\ Len(Rendered(fmt, args)) = max_size
====
